---- MODULE Spec2Model ----
(***************************************************************************)
(* Model of the job-orchestration engine of sstc (src/src/transcoder.rs):  *)
(* Submit (process_file), the dispatcher task (start_queue_processor /     *)
(* process_queued_files), the worker tasks (spawn_file_processor,          *)
(* process_file_internal, transcode_file, requeue_file) and the external   *)
(* ffmpeg child processes they start.                                      *)
(*                                                                         *)
(* Every Transcoder handle owns its own active_jobs map: Transcoder::clone *)
(* copies the DashMap by value (it is not behind an Arc), while the queue, *)
(* the semaphore and the wake-up channel are shared through Arc/Sender.    *)
(* Handles: "orig" is the Transcoder held by the watcher (Arc<Transcoder>, *)
(* so watcher clones share it), "disp" is the clone moved into the         *)
(* dispatcher task, and each worker slot owns the clone made at spawn.     *)
(*                                                                         *)
(* Steps are cut at the points where a task waits (semaphore, gate, child  *)
(* process, sleep, channel send).  Not modelled: a closed semaphore        *)
(* (it is never closed), a failing create_dir_all, and configurations that *)
(* name an unknown preset or output (load_config rejects them).            *)
(***************************************************************************)
EXTENDS Integers, Sequences, FiniteSets, TLC

\* ---------------------------------------------------------------- bounds
MaxSubmits == 3
NumWorkers == 2
NumSubmitters == 2
MaxParallelJobs == 1

\* ------------------------------------------------------ program constants
ChannelCapacity == 100

\* ------------------------------------------------------------ configuration
\* Two files of one watched root with the same stem.  Under "one_output" one
\* InputSpec lists both extensions, so both render to the same output path;
\* under "two_outputs" each extension has its own InputSpec and output.
Paths == {"clip.mov", "clip.mkv"}
Outputs == {"out/clip.mp4", "alt/clip.mp4"}
Configs == {"one_output", "two_outputs"}

Workers == 1..NumWorkers

VARIABLES
    config,         \* Arc<Config>, immutable after load
    file_queue,     \* Arc<Mutex<VecDeque<PathBuf>>>, shared by all handles
    queue_tx,       \* number of wake-ups buffered in the mpsc channel
    job_semaphore,  \* free permits of the shared semaphore
    active_jobs,    \* one DashMap per Transcoder value: [orig, disp, task[w]]
    dispatcher,     \* position of the dispatcher task: "recv" | "drain"
    workers,        \* worker slot -> [pc, path, outres, hadOutput]
    children,       \* worker slot -> state of the ffmpeg child it spawned
    sending,        \* process_file calls that pushed and have not yet sent
    inputState,     \* path -> "copying" | "ready" | "gone"
    outFile,        \* output path -> "none" | "old" | "empty" | "new"
    nsubmits,       \* number of process_file calls issued so far
    started,        \* path -> number of times the per-file pipeline was entered
    outAtSubmit,    \* path -> output existed when Submit last queued the path
    retries,        \* path -> number of requeue_file calls made for it
    epoch           \* path -> Submit calls and pipeline starts since the path
                    \*         was last submitted while idle

\* State of the separate specifications of the pure parts (error
\* classification, progress parser, stability gate, path matching); the
\* scheduler specification leaves them alone.
VARIABLES
    failure,        \* the Err a worker handles: [stem, kind, msg, requeued]
    parser,         \* the progress loop of transcode_file
    stab,           \* file_check::is_file_valid on one file
    keyed,          \* process_file with spelled paths and InputSpec matching
    cmd,            \* the ffmpeg command line built by transcode_file
    naming,         \* create_output_path on one input and OutputConfig
    walk            \* DirectoryWatcher::start_watching: walk and event listener

aux == <<failure, parser, stab, keyed, cmd, naming, walk>>

mainvars == <<config, file_queue, queue_tx, job_semaphore, active_jobs, dispatcher, workers,
          children, sending, inputState, outFile, nsubmits, started,
          outAtSubmit, retries, epoch>>

vars == <<mainvars, aux>>

\* create_output_path: output directory of the matched InputSpec joined with
\* the rendered stem and the container.
create_output_path(p) ==
    IF config = "one_output" \/ p = "clip.mov" THEN "out/clip.mp4" ELSE "alt/clip.mp4"

FreeWorker ==
    [pc |-> "free", path |-> "none", outres |-> "none", gate |-> "none", hadOutput |-> FALSE]

InQueue(p) == \E i \in 1..Len(file_queue) : file_queue[i] = p

Exists(o) == outFile[o] # "none"

\* the worker tasks that were spawned for p and have not ended
LiveWorkers(p) == {w \in Workers : workers[w].pc # "free" /\ workers[w].path = p}

\* p is neither queued nor being worked on
Idle(p) == ~InQueue(p) /\ LiveWorkers(p) = {}

\* Transcoder::new followed by start_queue_processor
Init ==
    /\ config = "one_output"
    /\ file_queue = <<>>
    /\ queue_tx = 0
    /\ job_semaphore = MaxParallelJobs
    /\ active_jobs = [orig |-> {}, disp |-> {}, task |-> [w \in Workers |-> {}]]
    /\ dispatcher = "recv"
    /\ workers = [w \in Workers |-> FreeWorker]
    /\ children = [w \in Workers |-> "none"]
    /\ sending = 0
    /\ inputState \in [Paths -> {"copying", "ready"}]
    /\ outFile \in [Outputs -> {"none", "old"}]
    /\ \A o \in Outputs : (\A p \in Paths : create_output_path(p) # o) => outFile[o] = "none"
    /\ nsubmits = 0
    /\ started = [p \in Paths |-> 0]
    /\ outAtSubmit = [p \in Paths |-> FALSE]
    /\ retries = [p \in Paths |-> 0]
    /\ epoch = [p \in Paths |-> [subs |-> 0, runs |-> 0]]
    /\ failure = "unused" /\ parser = "unused" /\ stab = "unused" /\ keyed = "unused"
    /\ cmd = "unused" /\ naming = "unused" /\ walk = "unused"

\* ------------------------------------------------------------ pure helpers
\* find_matching_input: None when the path cannot be canonicalized (the file
\* is gone); every path of Paths lies under a watched root with a listed
\* extension.
find_matching_input(p) == inputState[p] # "gone"

\* get_output_path_for_file: Err when find_matching_input is None (config
\* references are validated at load time, so get_output cannot fail).
get_output_path_for_file(p) == IF find_matching_input(p) THEN "ok" ELSE "err"

\* file_check::is_file_valid, by its three results: Err on a metadata error,
\* Ok(false) while the size keeps changing, Ok(true) for a settled file with
\* a positive duration.
is_file_valid(p) ==
    CASE inputState[p] = "gone" -> "error"
      [] inputState[p] = "copying" -> "notvalid"
      [] OTHER -> "valid"

\* Transcoder::clone, active_jobs field: the DashMap is copied by value, so
\* the new handle starts from the current contents and shares nothing.
clone(jobs) == jobs

\* the dispatcher without its active-set check
AlreadyProcessing_Never(p) == FALSE

\* process_queued_files: `self.active_jobs.contains_key(&file_path)`
AlreadyProcessing(p) == p \in active_jobs.disp

\* process_file: `self.active_jobs.contains_key(file_path)`
AlreadyActive(p) == p \in active_jobs.orig

\* spawn_file_processor, Err arm: remove the output file when its path could
\* be computed and it exists.
RemoveIncomplete(w, files) ==
    LET o == create_output_path(workers[w].path) IN
    IF workers[w].outres = "ok" /\ files[o] # "none"
    THEN [files EXCEPT ![o] = "none"] ELSE files

\* process_file_internal, Err arm of transcode_file: remove the output file
\* when it exists.
RemovePartial(w, files) ==
    LET o == create_output_path(workers[w].path) IN
    IF files[o] # "none" THEN [files EXCEPT ![o] = "none"] ELSE files

\* end of the worker task: `this.active_jobs.remove(&file_path)` on the
\* worker's own clone, `drop(permit)`, and the clone dies with the task.
Release(w) ==
    /\ active_jobs' = [active_jobs EXCEPT !.task[w] = {}]
    /\ job_semaphore' = job_semaphore + 1
    /\ workers' = [workers EXCEPT ![w] = FreeWorker]

\* ------------------------------------------------------------------ Submit
\* process_file up to the release of the queue lock: return when no InputSpec
\* matches, when this handle's active set holds the path, or when the path is
\* already queued; else push it to the tail of the queue.
SubmitPushUpTo(p, maxSubmits) ==
    /\ sending < NumSubmitters
    /\ nsubmits < maxSubmits
    /\ nsubmits' = nsubmits + 1
    /\ IF find_matching_input(p) /\ ~AlreadyActive(p) /\ ~InQueue(p)
       THEN /\ file_queue' = Append(file_queue, p)
            /\ sending' = sending + 1
            /\ outAtSubmit' = [outAtSubmit EXCEPT ![p] = Exists(create_output_path(p))]
       ELSE UNCHANGED <<file_queue, sending, outAtSubmit>>
    /\ epoch' = [epoch EXCEPT ![p] =
          IF ~find_matching_input(p) THEN @
          ELSE IF Idle(p) THEN [subs |-> 1, runs |-> 0]
          ELSE [@ EXCEPT !.subs = @ + 1]]
    /\ UNCHANGED <<config, queue_tx, job_semaphore, active_jobs, dispatcher, workers,
                   children, inputState, outFile, started, retries, aux>>

SubmitPush(p) == SubmitPushUpTo(p, MaxSubmits)

\* process_file: `self.queue_tx.send(()).await` (waits while the channel is full)
SubmitSend ==
    /\ sending > 0
    /\ queue_tx < ChannelCapacity
    /\ queue_tx' = queue_tx + 1
    /\ sending' = sending - 1
    /\ UNCHANGED <<config, file_queue, job_semaphore, active_jobs, dispatcher, workers,
                   children, inputState, outFile, nsubmits, started, outAtSubmit, retries, epoch, aux>>

\* -------------------------------------------------------------- dispatcher
\* start_queue_processor: `rx.recv().await`
DispatcherRecv ==
    /\ dispatcher = "recv"
    /\ queue_tx > 0
    /\ queue_tx' = queue_tx - 1
    /\ dispatcher' = "drain"
    /\ UNCHANGED <<config, file_queue, job_semaphore, active_jobs, workers, children,
                   sending, inputState, outFile, nsubmits, started, outAtSubmit, retries, epoch, aux>>

\* process_queued_files: the queue is empty => return to recv
DrainEmpty ==
    /\ dispatcher = "drain"
    /\ file_queue = <<>>
    /\ dispatcher' = "recv"
    /\ UNCHANGED <<config, file_queue, queue_tx, job_semaphore, active_jobs, workers,
                   children, sending, inputState, outFile, nsubmits, started,
                   outAtSubmit, retries, epoch, aux>>

\* process_queued_files: pop a path that is already in the dispatcher's
\* active set => continue
DrainSkip ==
    /\ dispatcher = "drain"
    /\ file_queue # <<>>
    /\ AlreadyProcessing(Head(file_queue))
    /\ file_queue' = Tail(file_queue)
    /\ UNCHANGED <<config, queue_tx, job_semaphore, active_jobs, dispatcher, workers,
                   children, sending, inputState, outFile, nsubmits, started,
                   outAtSubmit, retries, epoch, aux>>

\* process_queued_files + spawn_file_processor: pop, insert into the
\* dispatcher's active set, clone the handle and spawn the worker task.
DrainSpawn ==
    /\ dispatcher = "drain"
    /\ file_queue # <<>>
    /\ ~AlreadyProcessing(Head(file_queue))
    /\ \E w \in Workers :
        /\ workers[w].pc = "free" /\ children[w] = "none"
        /\ \A v \in Workers : (workers[v].pc = "free" /\ children[v] = "none") => w <= v
        /\ LET p == Head(file_queue)
               inserted == [active_jobs EXCEPT !.disp = @ \cup {p}] IN
           /\ active_jobs' = [inserted EXCEPT !.task[w] = clone(inserted.disp)]
           /\ workers' = [workers EXCEPT ![w] =
                 [FreeWorker EXCEPT !.pc = "acquire", !.path = p]]
    /\ file_queue' = Tail(file_queue)
    /\ UNCHANGED <<config, queue_tx, job_semaphore, dispatcher, children, sending,
                   inputState, outFile, nsubmits, started, outAtSubmit, retries, epoch, aux>>

\* ------------------------------------------------------------------ worker
\* spawn_file_processor task: acquire a permit, compute the output path
\* result, enter process_file_internal.
WorkerAcquire(w) ==
    LET p == workers[w].path IN
    /\ workers[w].pc = "acquire"
    /\ job_semaphore > 0
    /\ job_semaphore' = job_semaphore - 1
    /\ workers' = [workers EXCEPT ![w] =
          [pc |-> "gate", path |-> p, outres |-> get_output_path_for_file(p),
           gate |-> "none", hadOutput |-> Exists(create_output_path(p))]]
    /\ started' = [started EXCEPT ![p] = @ + 1]
    /\ epoch' = [epoch EXCEPT ![p].runs = @ + 1]
    /\ UNCHANGED <<config, file_queue, queue_tx, active_jobs, dispatcher, children,
                   sending, inputState, outFile, nsubmits, outAtSubmit, retries, aux>>

\* the gate test with the negation lost
GatePassed_Inverted(r) == r # "valid"

\* process_file_internal: `if !file_check::is_file_valid(file_path).await?`
GatePassed(r) == r = "valid"

\* process_file_internal: the validity gate returns.
\*   error    -> `?` propagates Err: the worker removes the output file and ends
\*   passed   -> continue with the pipeline
\*   else     -> Err("... not valid or still being copied"): the worker removes
\*               the output file and sleeps for the backoff
WorkerGate(w) ==
    LET p == workers[w].path
        r == is_file_valid(p) IN
    /\ workers[w].pc = "gate"
    /\ CASE r = "error" ->
              /\ outFile' = RemoveIncomplete(w, outFile)
              /\ Release(w)
         [] r # "error" /\ GatePassed(r) ->
              /\ workers' = [workers EXCEPT ![w].pc = "pipeline", ![w].gate = r]
              /\ UNCHANGED <<outFile, active_jobs, job_semaphore>>
         [] OTHER ->
              /\ outFile' = RemoveIncomplete(w, outFile)
              /\ workers' = [workers EXCEPT ![w].pc = "backoff", ![w].gate = r]
              /\ UNCHANGED <<active_jobs, job_semaphore>>
    /\ UNCHANGED <<config, file_queue, queue_tx, dispatcher, children, sending,
                   inputState, nsubmits, started, outAtSubmit, retries, epoch, aux>>

\* process_file_internal after the gate: the input matches no InputSpec any
\* more => Err; the output exists => Ok (skip); else transcode_file builds
\* the command and spawns ffmpeg, which either fails to start (Err) or runs.
WorkerPipeline(w) ==
    LET p == workers[w].path
        o == create_output_path(p) IN
    /\ workers[w].pc = "pipeline"
    /\ \/ /\ ~find_matching_input(p)
          /\ outFile' = RemoveIncomplete(w, outFile)
          /\ Release(w)
          /\ UNCHANGED children
       \/ /\ find_matching_input(p)
          /\ Exists(o)
          /\ Release(w)
          /\ UNCHANGED <<outFile, children>>
       \/ /\ find_matching_input(p)
          /\ ~Exists(o)
          /\ \/ /\ children' = [children EXCEPT ![w] = "running"]
                /\ workers' = [workers EXCEPT ![w].pc = "running"]
                /\ UNCHANGED <<outFile, active_jobs, job_semaphore>>
             \/ /\ outFile' = RemoveIncomplete(w, RemovePartial(w, outFile))
                /\ Release(w)
                /\ UNCHANGED children
    /\ UNCHANGED <<config, file_queue, queue_tx, dispatcher, sending, inputState,
                   nsubmits, started, outAtSubmit, retries, epoch, aux>>

\* transcode_file: `let line = line?;` returns Err out of the progress loop;
\* the Child value is dropped without wait or kill, so a running child keeps
\* running.  Both Err arms remove the output file, then the worker ends.
WorkerReadError(w) ==
    /\ workers[w].pc = "running"
    /\ outFile' = RemoveIncomplete(w, RemovePartial(w, outFile))
    /\ children' = [children EXCEPT ![w] = IF @ = "running" THEN "running" ELSE "none"]
    /\ Release(w)
    /\ UNCHANGED <<config, file_queue, queue_tx, dispatcher, sending, inputState,
                   nsubmits, started, outAtSubmit, retries, epoch, aux>>

\* the completion check with the cleanup of both Err arms lost
WorkerWait_KeepsOutput(w) ==
    /\ workers[w].pc = "running"
    /\ children[w] \in {"exited_ok", "exited_fail"}
    /\ children' = [children EXCEPT ![w] = "none"]
    /\ Release(w)
    /\ UNCHANGED <<config, file_queue, queue_tx, dispatcher, sending, inputState,
                   outFile, nsubmits, started, outAtSubmit, retries, epoch, aux>>

\* transcode_file: the progress loop ended (progress=end or end of stream)
\* and `child.wait()` returns; completion check (exit status, output exists,
\* output not empty); on Err both Err arms remove the output file.
WorkerWait(w) ==
    LET o == create_output_path(workers[w].path)
        ok == children[w] = "exited_ok" /\ Exists(o) /\ outFile[o] # "empty" IN
    /\ workers[w].pc = "running"
    /\ children[w] \in {"exited_ok", "exited_fail"}
    /\ children' = [children EXCEPT ![w] = "none"]
    /\ outFile' = IF ok THEN outFile ELSE RemoveIncomplete(w, RemovePartial(w, outFile))
    /\ Release(w)
    /\ UNCHANGED <<config, file_queue, queue_tx, dispatcher, sending, inputState,
                   nsubmits, started, outAtSubmit, retries, epoch, aux>>

\* a worker retries in place: it keeps its permit and goes back to the gate
WorkerRequeue_RetryInPlace(w) ==
    /\ workers[w].pc = "backoff"
    /\ workers' = [workers EXCEPT ![w].pc = "gate"]
    /\ UNCHANGED <<config, file_queue, queue_tx, job_semaphore, active_jobs, dispatcher,
                   children, sending, inputState, outFile, nsubmits, started, outAtSubmit,
                   retries, epoch, aux>>

\* spawn_file_processor after the 5 s sleep: requeue_file pushes the path to
\* the tail of the shared queue (no check of the queue or of any active set).
WorkerRequeue(w) ==
    /\ workers[w].pc = "backoff"
    /\ file_queue' = Append(file_queue, workers[w].path)
    /\ workers' = [workers EXCEPT ![w].pc = "signal"]
    /\ retries' = [retries EXCEPT ![workers[w].path] = @ + 1]
    /\ UNCHANGED <<config, queue_tx, job_semaphore, active_jobs, dispatcher, children,
                   sending, inputState, outFile, nsubmits, started, outAtSubmit, epoch, aux>>

\* the worker ends after its push without posting the wake-up
WorkerSignal_NoSend(w) ==
    /\ workers[w].pc = "signal"
    /\ Release(w)
    /\ UNCHANGED <<config, file_queue, queue_tx, dispatcher, children, sending, inputState,
                   outFile, nsubmits, started, outAtSubmit, retries, epoch, aux>>

\* requeue_file: `self.queue_tx.send(()).await`, then the worker ends.
WorkerSignal(w) ==
    /\ workers[w].pc = "signal"
    /\ queue_tx < ChannelCapacity
    /\ queue_tx' = queue_tx + 1
    /\ Release(w)
    /\ UNCHANGED <<config, file_queue, dispatcher, children, sending, inputState,
                   outFile, nsubmits, started, outAtSubmit, retries, epoch, aux>>

\* ------------------------------------------------------------- environment
\* the ffmpeg child ends: it leaves the output untouched, empty or written,
\* and exits with a success or failure status.  A child whose Child value
\* was dropped is not waited for.
ChildExit(w) ==
    LET o == create_output_path(workers[w].path) IN
    /\ children[w] = "running"
    /\ \E status \in {"exited_ok", "exited_fail"} :
          children' = [children EXCEPT ![w] =
              IF workers[w].pc = "running" THEN status ELSE "none"]
    /\ \E res \in {"keep", "empty", "new"} :
          outFile' = IF res = "keep" THEN outFile ELSE [outFile EXCEPT ![o] = res]
    /\ UNCHANGED <<config, file_queue, queue_tx, job_semaphore, active_jobs, dispatcher,
                   workers, sending, inputState, nsubmits, started, outAtSubmit, retries, epoch, aux>>

\* the copy into the watched directory finishes
FinishCopy(p) ==
    /\ inputState[p] = "copying"
    /\ inputState' = [inputState EXCEPT ![p] = "ready"]
    /\ UNCHANGED <<config, file_queue, queue_tx, job_semaphore, active_jobs, dispatcher,
                   workers, children, sending, outFile, nsubmits, started,
                   outAtSubmit, retries, epoch, aux>>

\* the input file is deleted
DeleteInput(p) ==
    /\ inputState[p] # "gone"
    /\ inputState' = [inputState EXCEPT ![p] = "gone"]
    /\ UNCHANGED <<config, file_queue, queue_tx, job_semaphore, active_jobs, dispatcher,
                   workers, children, sending, outFile, nsubmits, started,
                   outAtSubmit, retries, epoch, aux>>

Next ==
    \/ \E p \in Paths : SubmitPush(p)
    \/ SubmitSend
    \/ DispatcherRecv
    \/ DrainEmpty
    \/ DrainSkip
    \/ DrainSpawn
    \/ \E w \in Workers : WorkerAcquire(w)
    \/ \E w \in Workers : WorkerGate(w)
    \/ \E w \in Workers : WorkerPipeline(w)
    \/ \E w \in Workers : WorkerReadError(w)
    \/ \E w \in Workers : WorkerWait(w)
    \/ \E w \in Workers : WorkerRequeue(w)
    \/ \E w \in Workers : WorkerSignal(w)
    \/ \E w \in Workers : ChildExit(w)
    \/ \E p \in Paths : FinishCopy(p)
    \/ \E p \in Paths : DeleteInput(p)

Spec == Init /\ [][Next]_vars

TypeOK ==
    /\ queue_tx \in 0..ChannelCapacity
    /\ sending \in 0..NumSubmitters
    /\ job_semaphore \in 0..MaxParallelJobs
    /\ dispatcher \in {"recv", "drain"}
    /\ active_jobs.orig \subseteq Paths /\ active_jobs.disp \subseteq Paths
    /\ \A w \in Workers : active_jobs.task[w] \subseteq Paths
    /\ \A w \in Workers : children[w] \in {"none", "running", "exited_ok", "exited_fail"}

\* ------------------------------------------------------------------ claims
\* nothing is queued, signalled, being sent or being worked on: the system
\* does nothing more until the next Submit
Quiescent ==
    /\ file_queue = <<>>
    /\ queue_tx = 0
    /\ sending = 0
    /\ dispatcher = "recv"
    /\ \A w \in Workers : workers[w].pc = "free"

Count(p) == Cardinality({i \in 1..Len(file_queue) : file_queue[i] = p})

RunningChildren == {w \in Workers : children[w] = "running"}

\* the worker tasks that hold a permit of the semaphore
PermitHolders == {w \in Workers : workers[w].pc \notin {"free", "acquire"}}

\* C1: at every instant at most one worker task is running the per-file
\* pipeline (holds the active marker) for any path.
C1_SingleFlight == \A p \in Paths : Cardinality(LiveWorkers(p)) <= 1

\* C1 witness: a path is popped next by the dispatcher while a worker for it
\* is still alive.
C1_Witness ==
    /\ dispatcher = "drain"
    /\ file_queue # <<>>
    /\ LiveWorkers(Head(file_queue)) # {}

\* C2: the ffmpeg children that were spawned and have not exited never
\* outnumber maxParallelJobs.
C2_BoundedProcesses == Cardinality(RunningChildren) <= MaxParallelJobs

\* C3: no step of a job whose output file existed when the job started
\* deletes, truncates or overwrites that file.
C3_ExistingOutputKept ==
    [][\A w \in Workers :
          (workers[w].hadOutput /\ workers'[w] # workers[w])
          => outFile'[create_output_path(workers[w].path)]
               = outFile[create_output_path(workers[w].path)]]_vars

\* C4: every transient "not valid" outcome is followed by a re-submission
\* that the dispatcher accepts, so once the system has come to rest a path
\* has had one more attempt than it has had retries.
C4_RetryRuns ==
    \A p \in Paths : (Quiescent /\ retries[p] >= 1) => started[p] >= retries[p] + 1

\* C5: a path is marked in the active sets that Submit and the dispatcher
\* consult only while a worker for it is alive, and every permit that is not
\* free is held by a live worker.
C5_ReleasedOnExit ==
    /\ \A p \in active_jobs.disp \cup active_jobs.orig : LiveWorkers(p) # {}
    /\ job_semaphore + Cardinality(PermitHolders) = MaxParallelJobs

\* C6: a Submit call appends a path to the queue, and takes on one wake-up
\* to post, only when the path is neither queued nor active; a call that
\* leaves the queue alone posts nothing.
C6_SubmitNoOp ==
    [][nsubmits' # nsubmits =>
          /\ \A p \in Paths :
                file_queue' = Append(file_queue, p)
                => (~InQueue(p) /\ LiveWorkers(p) = {} /\ sending' = sending + 1)
          /\ file_queue' = file_queue => sending' = sending]_vars

\* C7: every path occurs at most once in the queue and is never queued while
\* a worker holds its active marker.
C7_OneInstance ==
    \A p \in Paths : Count(p) <= 1 /\ ~(InQueue(p) /\ LiveWorkers(p) # {})

\* C8: two or more Submit calls for a path, the first made while the path was
\* idle, lead to exactly one start of the pipeline when no retry occurs.
C8_CollapseToOne ==
    \A p \in Paths :
        (retries[p] = 0 /\ epoch[p].subs >= 2)
        => (epoch[p].runs <= 1 /\ (Quiescent => epoch[p].runs = 1))

\* C9: a worker is in the executor only after the validity gate returned
\* "valid" in the same attempt.
C9_GateBeforeExecutor ==
    \A w \in Workers : workers[w].pc = "running" => workers[w].gate = "valid"

\* C9 witness: a worker whose gate passed has spawned ffmpeg.
C9_Witness ==
    \E w \in Workers : workers[w].pc = "running" /\ children[w] = "running"

\* C10: ffmpeg is never spawned for a path whose output file existed when
\* the path was submitted.
C10_NoToolWhenOutputExists ==
    [][\A w \in Workers :
          (children[w] # "running" /\ children'[w] = "running")
          => ~outAtSubmit[workers[w].path]]_vars

MainIdle ==
    /\ config = "one_output"
    /\ file_queue = <<>>
    /\ queue_tx = 0
    /\ job_semaphore = MaxParallelJobs
    /\ active_jobs = [orig |-> {}, disp |-> {}, task |-> [w \in Workers |-> {}]]
    /\ dispatcher = "recv"
    /\ workers = [w \in Workers |-> FreeWorker]
    /\ children = [w \in Workers |-> "none"]
    /\ sending = 0
    /\ inputState = [p \in Paths |-> "ready"]
    /\ outFile = [o \in Outputs |-> "none"]
    /\ nsubmits = 0
    /\ started = [p \in Paths |-> 0]
    /\ outAtSubmit = [p \in Paths |-> FALSE]
    /\ retries = [p \in Paths |-> 0]
    /\ epoch = [p \in Paths |-> [subs |-> 0, runs |-> 0]]

\* ------------------------------------------- the worker's Err arm (159-186)
\* Text is a sequence of tokens (words and punctuation), so that "contains"
\* is a search for a contiguous run of tokens.
Contains(s, sub) ==
    \E i \in 1..(Len(s) - Len(sub) + 1) : SubSeq(s, i, i + Len(sub) - 1) = sub

\* the text the worker looks for in the error
RetryPhrase == <<"not", "valid", "or", "still", "being", "copied">>

\* file stems of input files, as the user named them
Stems ==
    { <<"clip">>,
      <<"not", "valid">>,
      <<"not", "valid", "or", "still", "being", "copied">>,
      <<"take", "not", "valid", "or", "still", "being", "copied", "v2">> }

\* the configured output directories
OutDirs == { <<"out", "/">>, <<"archive", "/">> }

\* the failures process_file_internal can return
FailureKinds ==
    {"notvalid", "metadata", "ffprobe_exec", "nomatch", "mkdir", "spawn",
     "read", "status", "notcreated", "empty"}

\* the input path as displayed, and the output path create_output_path gives
InputDisplay(stem) == <<"in", "/">> \o stem \o <<".", "mov">>
OutputDisplay(dir, stem) == dir \o stem \o <<".", "mp4">>

\* e.to_string() of the error of each kind
ErrorMessage(kind, stem, dir) ==
    CASE kind = "notvalid" ->
            <<"File", "is", "not", "valid", "or", "still", "being", "copied", ":">>
                \o InputDisplay(stem)
      [] kind = "metadata" ->
            <<"Failed", "to", "get", "file", "metadata", ":", "No", "such", "file",
              "or", "directory", "(os", "error", "2)">>
      [] kind = "ffprobe_exec" -> <<"Failed", "to", "execute", "ffprobe">>
      [] kind = "nomatch" -> <<"No", "matching", "input", "configuration", "found">>
      [] kind = "mkdir" -> <<"Failed", "to", "create", "output", "directory">>
      [] kind = "spawn" -> <<"No", "such", "file", "or", "directory", "(os", "error", "2)">>
      [] kind = "read" -> <<"stream", "did", "not", "contain", "valid", "UTF-8">>
      [] kind = "status" ->
            <<"FFmpeg", "process", "failed", "with", "status", ":", "exit", "status",
              ":", "1">>
      [] kind = "notcreated" ->
            <<"Output", "file", "was", "not", "created", ":">> \o OutputDisplay(dir, stem)
      [] kind = "empty" ->
            <<"Output", "file", "is", "empty", ":">> \o OutputDisplay(dir, stem)

\* line 182: the worker re-submits when the error text contains the phrase
ShouldRequeue(msg) == Contains(msg, RetryPhrase)

InitClassify ==
    /\ MainIdle
    /\ failure \in [stem : Stems, dir : OutDirs, kind : FailureKinds,
                    pc : {"start"}, msg : {<<>>}, requeued : {FALSE}]
    /\ parser = "unused" /\ stab = "unused" /\ keyed = "unused"
    /\ cmd = "unused" /\ naming = "unused" /\ walk = "unused"

\* process_file_internal returns Err(e)
ClassifyRaise ==
    /\ failure.pc = "start"
    /\ failure' = [failure EXCEPT !.pc = "raised",
                       !.msg = ErrorMessage(failure.kind, failure.stem, failure.dir)]
    /\ UNCHANGED <<mainvars, parser, stab, keyed, cmd, naming, walk>>

\* the worker's Err arm: sleep and requeue_file, or drop the job
ClassifyHandle ==
    /\ failure.pc = "raised"
    /\ failure' = [failure EXCEPT !.pc = "handled", !.requeued = ShouldRequeue(failure.msg)]
    /\ UNCHANGED <<mainvars, parser, stab, keyed, cmd, naming, walk>>

NextClassify == ClassifyRaise \/ ClassifyHandle

SpecClassify == InitClassify /\ [][NextClassify]_vars

\* C11: the worker re-submits a job exactly when the gate said 'not valid';
\* every other failure drops the job with no re-submission.
C11_RequeueOnlyNotValid ==
    failure.pc = "handled" => (failure.requeued <=> failure.kind = "notvalid")

\* ------------------------------- the progress loop of transcode_file (490-536)
\* the longest progress stream drawn
MaxLines == 3

\* A line of ffmpeg's stdout is a sequence of tokens; " " is white space, "="
\* the separator and a number is written digit by digit.
IoError == <<"<io error>">>

LineAlphabet ==
    { <<"frame", "=", "1", "0">>,
      <<"out_time_ms", "=", "2", "0", "0", "0", "0", "0", "0">>,
      <<"out_time_ms", "=", "2", "9", "9", "9", "9", "9", "9">>,
      <<"out_time_ms", "=", "-", "2", "0", "0", "0", "0", "0", "0">>,
      <<"out_time_ms", "=", "N/A">>,
      <<"progress", "=", "continue">>,
      <<" ", "progress", "=", "end", " ">>,
      <<" ">>,
      <<"Press", "[q]", "to", "stop">>,
      IoError }

\* char::is_whitespace on the tokens used
Whitespace == {" ", "\n", "\t"}

RECURSIVE TrimStart(_)
TrimStart(l) == IF l # <<>> /\ Head(l) \in Whitespace THEN TrimStart(Tail(l)) ELSE l

RECURSIVE TrimEnd(_)
TrimEnd(l) ==
    IF l # <<>> /\ l[Len(l)] \in Whitespace THEN TrimEnd(SubSeq(l, 1, Len(l) - 1)) ELSE l

\* str::trim
Trim(l) == TrimEnd(TrimStart(l))

\* str::split_once('='): no pair, or the text before and after the first '='
SplitOnce(l) ==
    IF \A i \in 1..Len(l) : l[i] # "="
    THEN {}
    ELSE LET i == CHOOSE k \in 1..Len(l) : l[k] = "=" /\ \A j \in 1..(k - 1) : l[j] # "="
         IN {<<SubSeq(l, 1, i - 1), SubSeq(l, i + 1, Len(l))>>}

DigitValue ==
    ("0" :> 0) @@ ("1" :> 1) @@ ("2" :> 2) @@ ("3" :> 3) @@ ("4" :> 4) @@
    ("5" :> 5) @@ ("6" :> 6) @@ ("7" :> 7) @@ ("8" :> 8) @@ ("9" :> 9)

RECURSIVE ParseDigits(_, _)
ParseDigits(v, acc) ==
    IF v = <<>> THEN acc ELSE ParseDigits(Tail(v), 10 * acc + DigitValue[Head(v)])

\* str::parse::<i64>().ok(): no value, or the number
ParseI64(v) ==
    LET body == IF v # <<>> /\ Head(v) \in {"-", "+"} THEN Tail(v) ELSE v IN
    IF body = <<>> \/ \E i \in 1..Len(body) : body[i] \notin DOMAIN DigitValue
    THEN {}
    ELSE IF Head(v) = "-" THEN {0 - ParseDigits(body, 0)} ELSE {ParseDigits(body, 0)}

\* HashMap::insert and HashMap::get on a set of <<key, value>> pairs
MapInsert(m, k, v) == {e \in m : e[1] # k} \cup {<<k, v>>}
MapGet(m, k) == {e[2] : e \in {x \in m : x[1] = k}}

\* FFmpegProgress::from_key_values, the fields the loop reads
from_key_values(m) ==
    [out_time_ms |-> UNION {ParseI64(v) : v \in MapGet(m, <<"out_time_ms">>)},
     progress    |-> MapGet(m, <<"progress">>)]

\* the finalization that never recognises the end of the stream
is_complete_Never(snap) == FALSE

\* FFmpegProgress::is_complete
is_complete(snap) == snap.progress = {<<"end">>}

\* i64 division, rounding toward zero
DivTrunc(a, b) == IF a >= 0 THEN a \div b ELSE 0 - ((0 - a) \div b)

MicrosPerSecond == 1000000

\* the position taken as if the field counted milliseconds
ProgressPosition_Millis(ms) ==
    LET q == DivTrunc(ms, 1000) IN
    [wraps |-> IF q < 0 THEN 1 ELSE 0, value |-> q]

\* `(ms / 1_000_000) as u64`: the value is wraps * 2^64 + value
ProgressPosition(ms) ==
    LET q == DivTrunc(ms, MicrosPerSecond) IN
    [wraps |-> IF q < 0 THEN 1 ELSE 0, value |-> q]

\* the indicator transcode_file builds (lines 468-483): a bar of length
\* `format_info.duration as u64` when the duration probe succeeded (12 for a
\* 12.5 s input), a spinner without a length when it failed
BarLengths == {{}, {12}}

\* ProgressBar::finish: a bar with a length is put at its length, a spinner
\* keeps its position
Finish(bar, length) ==
    IF length = {} THEN bar ELSE [wraps |-> 0, value |-> CHOOSE n \in length : TRUE]

LineSeqs == UNION {[1..n -> LineAlphabet] : n \in 0..MaxLines}

InitProgress ==
    /\ MainIdle
    /\ \E ls \in LineSeqs, st \in {"exited_ok", "exited_fail"}, o \in {"none", "empty", "new"},
          len \in BarLengths :
         parser = [lines |-> ls, status |-> st, out |-> o, pos |-> 0, current |-> {},
                   length |-> len,
                   snapshots |-> <<>>, bar |-> [wraps |-> 0, value |-> 0],
                   finished |-> FALSE, pc |-> "reading", result |-> "none",
                   why |-> "none"]
    /\ failure = "unused" /\ stab = "unused" /\ keyed = "unused"
    /\ cmd = "unused" /\ naming = "unused" /\ walk = "unused"

\* one iteration of `for line in reader.lines()`
ReadLine ==
    /\ parser.pc = "reading"
    /\ parser.pos < Len(parser.lines)
    /\ LET raw == parser.lines[parser.pos + 1]
           line == Trim(raw)
           kv == SplitOnce(line)
       IN
       IF raw = IoError
       THEN \* `line?`: transcode_file returns the error
            parser' = [parser EXCEPT !.pos = @ + 1, !.pc = "done", !.result = "err",
                                !.why = "read"]
       ELSE IF line = <<>> \/ kv = {}
       THEN parser' = [parser EXCEPT !.pos = @ + 1]
       ELSE LET key == (CHOOSE e \in kv : TRUE)[1]
                value == (CHOOSE e \in kv : TRUE)[2]
                cur == MapInsert(parser.current, key, value)
                snap == from_key_values(cur)
                bar == IF snap.out_time_ms = {} THEN parser.bar
                       ELSE ProgressPosition(CHOOSE ms \in snap.out_time_ms : TRUE)
            IN
            IF key # <<"progress">>
            THEN parser' = [parser EXCEPT !.pos = @ + 1, !.current = cur]
            ELSE IF is_complete(snap)
                 THEN parser' = [parser EXCEPT !.pos = @ + 1, !.current = cur,
                                     !.snapshots = Append(@, snap),
                                     !.bar = Finish(bar, parser.length),
                                     !.finished = TRUE, !.pc = "wait"]
                 ELSE parser' = [parser EXCEPT !.pos = @ + 1, !.current = {},
                                     !.snapshots = Append(@, snap), !.bar = bar]
    /\ UNCHANGED <<mainvars, failure, stab, keyed, cmd, naming, walk>>

\* the stream is at its end: the loop is left without a break
ReadEOF ==
    /\ parser.pc = "reading"
    /\ parser.pos = Len(parser.lines)
    /\ parser' = [parser EXCEPT !.pc = "wait"]
    /\ UNCHANGED <<mainvars, failure, stab, keyed, cmd, naming, walk>>

\* the completion check that accepts an empty output file
CompletionCheck_AcceptsEmpty(status, out) ==
    IF status # "exited_ok" THEN "status"
    ELSE IF out = "none" THEN "notcreated"
    ELSE "ok"

\* lines 519-536: "ok", or which of the three checks failed (each has its
\* own message)
CompletionCheck(status, out) ==
    IF status # "exited_ok" THEN "status"
    ELSE IF out = "none" THEN "notcreated"
    ELSE IF out = "empty" THEN "empty"
    ELSE "ok"

\* lines 519-536: child.wait() and the checks of the output file
WaitAndCheck ==
    /\ parser.pc = "wait"
    /\ LET c == CompletionCheck(parser.status, parser.out) IN
       parser' = [parser EXCEPT !.pc = "done",
                      !.result = IF c = "ok" THEN "ok" ELSE "err",
                      !.why = IF c = "ok" THEN "none" ELSE c]
    /\ UNCHANGED <<mainvars, failure, stab, keyed, cmd, naming, walk>>

NextProgress == ReadLine \/ ReadEOF \/ WaitAndCheck

SpecProgress == InitProgress /\ [][NextProgress]_vars

\* the lines whose key is 'progress', and the one that says 'end'
IsProgressLine(l) ==
    \E e \in SplitOnce(Trim(l)) : e[1] = <<"progress">>
IsEndLine(l) ==
    \E e \in SplitOnce(Trim(l)) : e[1] = <<"progress">> /\ e[2] = <<"end">>

\* the index of the first 'progress=end' line, or 0
FirstEnd(ls) ==
    IF \E i \in 1..Len(ls) : IsEndLine(ls[i])
    THEN CHOOSE i \in 1..Len(ls) : IsEndLine(ls[i]) /\ \A j \in 1..(i - 1) : ~IsEndLine(ls[j])
    ELSE 0

SawEnd == \E i \in 1..parser.pos : IsEndLine(parser.lines[i])

\* C13: when the progress stream ends without 'progress=end', the executor
\* reports failure, whatever the exit status and the output file.
C13_EofWithoutEndFails ==
    (parser.pc = "done" /\ parser.pos = Len(parser.lines) /\ ~SawEnd)
        => parser.result = "err"

\* C14: the parser finalizes exactly one snapshot per consumed line whose key
\* is 'progress'; it consumes no line after the first 'progress=end'; the
\* snapshot of that line, and only that one, has phase 'end', and with it the
\* read loop is over.
C14_OneSnapshotPerProgressLine ==
    LET e == FirstEnd(parser.lines)
        n == Len(parser.snapshots)
    IN
    /\ n = Cardinality({i \in 1..parser.pos : IsProgressLine(parser.lines[i])})
    /\ e # 0 => parser.pos <= e
    /\ \A i \in 1..n :
          parser.snapshots[i].progress = {<<"end">>}
              <=> (i = n /\ e # 0 /\ parser.pos = e)
    /\ (e # 0 /\ parser.pos = e) => (parser.pc # "reading" /\ parser.finished)

\* C14 witness: the loop has stopped at 'progress=end' after two snapshots,
\* with a line of the stream still unread.
C14_Witness ==
    /\ parser.pc = "wait"
    /\ parser.finished
    /\ Len(parser.snapshots) = 2
    /\ parser.pos < Len(parser.lines)

\* ------------------------------------ file_check::is_file_valid (7-102)
\* Time is counted in ticks; the file may be written between two polls.
TicksPerSecond == 2

\* seconds, as in wait_for_stable_size
CheckIntervalSecs == 1
TimeoutSecs == 60
StabilityThresholdSecs == 3

check_interval == CheckIntervalSecs * TicksPerSecond
timeout == TimeoutSecs * TicksPerSecond
stability_threshold == StabilityThresholdSecs * TicksPerSecond

\* the sizes the file takes while it is written
FileSizes == {10, 20}

\* what running ffprobe can give
ProbeOutcomes ==
    {"exec_error", "status_fail", "duration_positive", "duration_not_positive",
     "duration_unparsable"}

\* what ffprobe prints for the duration
DurationTexts ==
    { <<"1", "2", ".", "5", "0", "\n">>,
      <<"0", ".", "0", "0", "1", "\n">>,
      <<"0", ".", "0", "0", "0", "\n">>,
      <<"-", "1", ".", "0", "\n">>,
      <<"N/A", "\n">>,
      <<"1", ".", "2", ".", "3", "\n">>,
      <<>> }

\* a run of ffprobe: could it be started, its exit status, its stdout
ProbeRuns == [spawned : BOOLEAN, success : BOOLEAN, stdout : DurationTexts]
NoProbe == [spawned |-> FALSE, success |-> FALSE, stdout |-> <<>>]

\* str::parse::<f64>() of a decimal text: no value, or the number as
\* <<sign, digits read as an integer>> (the position of the point does not
\* change whether it is greater than 0)
ParseF64(v) ==
    LET body == IF v # <<>> /\ Head(v) \in {"-", "+"} THEN Tail(v) ELSE v
        points == {i \in 1..Len(body) : body[i] = "."}
        digits == SelectSeq(body, LAMBDA t : t # ".")
    IN
    IF \/ digits = <<>>
       \/ Cardinality(points) > 1
       \/ \E i \in 1..Len(digits) : digits[i] \notin DOMAIN DigitValue
    THEN {}
    ELSE {<<IF Head(v) = "-" THEN 0 - 1 ELSE 1, ParseDigits(digits, 0)>>}

\* the guard that also takes a duration of zero
DurationAccepted_OrZero(d) == d[1] * d[2] >= 0

\* line 34: `Ok(duration) if duration > 0.0`
DurationAccepted(d) == d[1] * d[2] > 0

\* lines 14-50 on one run of ffprobe
ProbeOutcome(run) ==
    IF ~run.spawned THEN "exec_error"
    ELSE IF ~run.success THEN "status_fail"
    ELSE LET parsed == ParseF64(Trim(run.stdout)) IN
         IF parsed = {} THEN "duration_unparsable"
         ELSE IF DurationAccepted(CHOOSE d \in parsed : TRUE) THEN "duration_positive"
         ELSE "duration_not_positive"

InitGate ==
    /\ MainIdle
    /\ \E sz \in FileSizes, ch \in {0 - stability_threshold, 0} :
         stab = [now |-> 0, start_time |-> 0, last_size |-> {}, last_change_time |-> 0,
                 wake |-> 0, size |-> sz, exists |-> TRUE, changedAt |-> ch,
                 wrote |-> FALSE, pc |-> "poll", result |-> "none", probed |-> FALSE,
                 prevObs |-> {}, obsChangedAt |-> 0, obsStable |-> FALSE,
                 trueStable |-> (0 - ch >= stability_threshold),
                 probe |-> NoProbe, metaFailed |-> FALSE, failedAt |-> 0,
                 requeued |-> FALSE]
    /\ failure = "unused" /\ parser = "unused" /\ keyed = "unused"
    /\ cmd = "unused" /\ naming = "unused" /\ walk = "unused"

\* time passes while the gate sleeps (line 97)
GateTick ==
    /\ stab.pc = "poll"
    /\ stab.now < stab.wake
    /\ stab' = [stab EXCEPT !.now = @ + 1, !.wrote = FALSE,
                    !.trueStable = @ \/ (stab.now + 1 - stab.changedAt >= stability_threshold)]
    /\ UNCHANGED <<mainvars, failure, parser, keyed, cmd, naming, walk>>

\* whoever writes the file changes its size
FileWrite ==
    /\ stab.pc = "poll"
    /\ stab.exists
    /\ ~stab.wrote
    /\ \E sz \in FileSizes \ {stab.size} :
         stab' = [stab EXCEPT !.size = sz, !.changedAt = stab.now, !.wrote = TRUE]
    /\ UNCHANGED <<mainvars, failure, parser, keyed, cmd, naming, walk>>

\* the file is removed while the gate runs
FileDelete ==
    /\ stab.pc = "poll"
    /\ stab.exists
    /\ stab' = [stab EXCEPT !.exists = FALSE]
    /\ UNCHANGED <<mainvars, failure, parser, keyed, cmd, naming, walk>>

\* line 82 with the window not restarted
RestartWindow_Kept(now, last) == last

\* line 82: last_change_time = Instant::now()
RestartWindow(now, last) == now

\* lines 10-12 with the probe run although the size never settled
NotSettled_Probe(st) == [st EXCEPT !.pc = "probe"]

\* lines 100-101 and 10-12: Ok(false), and is_file_valid returns Ok(false)
NotSettled(st) == [st EXCEPT !.pc = "done", !.result = "notvalid"]

\* lines 91-94 with the failure taken for an unsettled file
MetadataError_NotValid(st) == [st EXCEPT !.pc = "done", !.result = "notvalid"]

\* lines 91-94: Err("Failed to get file metadata"), passed on by `?` (line 10)
MetadataError(st) == [st EXCEPT !.pc = "done", !.result = "error"]

\* one iteration of the loop of wait_for_stable_size (lines 64-98), with the
\* record of what the polls have seen (prevObs, obsChangedAt, obsStable)
GatePoll ==
    /\ stab.pc = "poll"
    /\ stab.now = stab.wake
    /\ LET seen == [stab EXCEPT
                       !.prevObs = {stab.size},
                       !.obsChangedAt = IF stab.prevObs # {} /\ stab.size \notin stab.prevObs
                                        THEN stab.now ELSE @,
                       !.obsStable = @ \/ (/\ stab.size \in stab.prevObs
                                           /\ stab.now - stab.obsChangedAt >= stability_threshold),
                       !.wake = stab.now + check_interval]
       IN
       IF ~(stab.now - stab.start_time < timeout)
       THEN stab' = NotSettled(stab)
       ELSE IF ~stab.exists
       THEN stab' = [MetadataError(stab) EXCEPT !.metaFailed = TRUE, !.failedAt = stab.now]
       ELSE IF stab.last_size = {}
       THEN stab' = [seen EXCEPT !.last_size = {stab.size}]
       ELSE IF stab.size \in stab.last_size
       THEN IF stab.now - stab.last_change_time >= stability_threshold
            THEN stab' = [seen EXCEPT !.pc = "probe", !.wake = stab.wake]
            ELSE stab' = seen
       ELSE stab' = [seen EXCEPT !.last_size = {stab.size},
                         !.last_change_time = RestartWindow(stab.now, stab.last_change_time)]
    /\ UNCHANGED <<mainvars, failure, parser, keyed, cmd, naming, walk>>

\* lines 14-50: ffprobe and the duration it prints
GateProbe ==
    /\ stab.pc = "probe"
    /\ \E run \in ProbeRuns :
         LET r == ProbeOutcome(run) IN
         /\ r \in ProbeOutcomes
         /\ stab' = [stab EXCEPT !.pc = "done", !.probed = TRUE, !.probe = run,
                         !.result = CASE r = "exec_error" -> "error"
                                      [] r = "duration_positive" -> "valid"
                                      [] OTHER -> "notvalid"]
    /\ UNCHANGED <<mainvars, failure, parser, keyed, cmd, naming, walk>>

\* the kind of failure the worker is handed for the gate's answer
GateFailureKind ==
    IF stab.result = "notvalid" THEN "notvalid"
    ELSE IF stab.metaFailed THEN "metadata"
    ELSE "ffprobe_exec"

\* process_file_internal (246-252) returns the gate's answer to the worker,
\* whose Err arm decides on the re-submission (159-186)
GateReturn ==
    /\ stab.pc = "done"
    /\ \E stem \in Stems, dir \in OutDirs :
         stab' = [stab EXCEPT !.pc = "returned",
                      !.requeued = /\ stab.result # "valid"
                                   /\ ShouldRequeue(ErrorMessage(GateFailureKind, stem, dir))]
    /\ UNCHANGED <<mainvars, failure, parser, keyed, cmd, naming, walk>>

NextGate == GateTick \/ FileWrite \/ FileDelete \/ GatePoll \/ GateProbe \/ GateReturn

SpecGate == InitGate /\ [][NextGate]_vars

\* the gate has declared the file settled
Settled == stab.pc = "probe" \/ stab.probed

\* C15 as stated: the file is declared settled only when its size last
\* changed at least 3 seconds ago.
C15_SettledOnlyAfterQuietWindow ==
    Settled => stab.now - stab.changedAt >= stability_threshold

\* C15 amended: the file is declared settled only by a poll that sees the size
\* of the previous poll at least 3 seconds after the last poll that saw a
\* different size (or after the gate started).
C15_SettledOnlyAfterObservedWindow ==
    Settled => (/\ stab.prevObs = {stab.size}
                /\ stab.now - stab.obsChangedAt >= stability_threshold
                /\ stab.obsStable)

\* C15 witness: the polls saw the size change after the gate started, and the
\* gate has since declared the file settled.
C15_Witness ==
    Settled /\ stab.obsChangedAt > 0

\* C16 as stated: when the size never stayed unchanged for a full 3-second
\* window, the gate answers 'not valid' and the probe is not run.
C16_NeverStableNotValid ==
    (stab.pc = "done" /\ ~stab.trueStable /\ stab.result # "error")
        => (stab.result = "notvalid" /\ ~stab.probed)

\* C16 amended: when no poll found the size unchanged over a full 3-second
\* window and no metadata read failed, the gate answers 'not valid' at the
\* 60-second timeout and the probe is not run.
C16_NeverObservedStableNotValid ==
    ((stab.pc = "probe" \/ stab.pc = "done") /\ ~stab.obsStable /\ stab.result # "error")
        => (/\ stab.pc = "done"
            /\ stab.result = "notvalid"
            /\ ~stab.probed
            /\ stab.now - stab.start_time >= timeout)

\* C16 witness: the size kept changing until the timeout and the gate said
\* 'not valid' without a probe.
C16_Witness ==
    /\ stab.pc = "done"
    /\ stab.result = "notvalid"
    /\ ~stab.probed
    /\ ~stab.obsStable
    /\ stab.now - stab.start_time >= timeout

\* -------------------------------- many submissions, workers not yet scheduled
\* the number of calls of process_file in the flood
FloodSubmits == 102

\* the file whose events keep arriving
FloodPaths == {"clip.mov"}

InitFlood ==
    /\ MainIdle
    /\ failure = "unused" /\ parser = "unused" /\ stab = "unused" /\ keyed = "unused"
    /\ cmd = "unused" /\ naming = "unused" /\ walk = "unused"

NextFlood ==
    \/ \E p \in FloodPaths : SubmitPushUpTo(p, FloodSubmits)
    \/ SubmitSend
    \/ DispatcherRecv
    \/ DrainEmpty
    \/ DrainSkip
    \/ DrainSpawn

SpecFlood == InitFlood /\ [][NextFlood]_vars

\* C17: Submit never waits for the dispatcher or a worker: a submitter that
\* has pushed its path can post its wake-up signal at once.
C17_SubmitNeverWaits ==
    sending > 0 => queue_tx < ChannelCapacity

\* ------------------- process_file and find_matching_input on spelled paths
\* A path is a sequence of components and a component a sequence of tokens
\* (a directory name, or the characters of a file name).
KeyedMaxSubmits == 3

DirIn      == <<"in">>
DirSub     == <<"sub">>
DirLink    == <<"link">>
DirOther   == <<"other">>
DirMissing == <<"missing">>
DotDot     == <<"..">>

\* what is on disk: directories, one symbolic link to a directory, files
RealDirs == { <<>>, <<DirIn>>, <<DirIn, DirSub>>, <<DirOther>> }

SymlinkTarget == (<<DirLink>> :> <<DirIn>>)

RealFiles ==
    { <<DirIn, <<"a", ".", "M", "O", "V">>>>,
      <<DirIn, <<"b", ".", "t", "x", "t">>>>,
      <<DirIn, <<"d", ".", "m", "k", "v">>>>,
      <<DirIn, <<"n", "o", "e", "x", "t">>>>,
      <<DirIn, DirSub, <<"e", ".", "m", "o", "v">>>>,
      <<DirOther, <<"c", ".", "m", "o", "v">>>> }

\* the paths handed to process_file, as the watcher spells them
Spellings ==
    { <<DirIn, <<"a", ".", "M", "O", "V">>>>,
      <<DirLink, <<"a", ".", "M", "O", "V">>>>,
      <<DirIn, DirSub, DotDot, <<"a", ".", "M", "O", "V">>>>,
      <<DirIn, <<"b", ".", "t", "x", "t">>>>,
      <<DirIn, <<"d", ".", "m", "k", "v">>>>,
      <<DirIn, <<"n", "o", "e", "x", "t">>>>,
      <<DirOther, <<"c", ".", "m", "o", "v">>>>,
      <<DirIn, <<"g", ".", "m", "o", "v">>>> }

\* the InputSpecs a configuration is made of: root and extension list
InputSpecs ==
    { [path |-> <<DirIn>>,      extensions |-> << <<"m", "o", "v">> >>],
      [path |-> <<DirLink>>,    extensions |-> << <<"M", "K", "V">>, <<"M", "o", "v">> >>],
      [path |-> <<DirOther>>,   extensions |-> << <<"m", "o", "v">> >>],
      [path |-> <<DirMissing>>, extensions |-> << <<"m", "o", "v">> >>] }

\* config.inputs: two InputSpecs in some order
InputLists == [1..2 -> InputSpecs]

\* std::fs::canonicalize: no path (an error), or the path with "..", and the
\* symbolic link resolved
RECURSIVE Resolve(_, _)
Resolve(rest, acc) ==
    IF acc = {} \/ rest = <<>> THEN acc
    ELSE LET at == CHOOSE a \in acc : TRUE
             name == Head(rest)
             cand == Append(at, name)
         IN
         IF at \notin RealDirs THEN {}
         ELSE IF name = DotDot
         THEN Resolve(Tail(rest), {IF at = <<>> THEN at ELSE SubSeq(at, 1, Len(at) - 1)})
         ELSE IF cand \in DOMAIN SymlinkTarget
         THEN Resolve(Tail(rest), {SymlinkTarget[cand]})
         ELSE IF cand \in RealDirs \cup RealFiles
         THEN Resolve(Tail(rest), {cand})
         ELSE {}

canonicalize(path) == Resolve(path, {<<>>})

\* Path::extension: what follows the last '.' of the last component, if the
\* '.' is not its first character
extension(path) ==
    LET name == path[Len(path)]
        dots == {i \in 1..Len(name) : name[i] = "."}
    IN
    IF name = DotDot \/ dots = {} THEN {}
    ELSE LET i == CHOOSE k \in dots : \A j \in dots : j <= k IN
         IF i = 1 THEN {} ELSE {SubSeq(name, i + 1, Len(name))}

LowerChar ==
    ("M" :> "m") @@ ("O" :> "o") @@ ("V" :> "v") @@ ("K" :> "k") @@
    ("T" :> "t") @@ ("X" :> "x")

\* str::to_lowercase
to_lowercase(str) ==
    [i \in 1..Len(str) |-> IF str[i] \in DOMAIN LowerChar THEN LowerChar[str[i]] ELSE str[i]]

\* Path::starts_with: component by component
starts_with(path, base) ==
    Len(base) <= Len(path) /\ SubSeq(path, 1, Len(base)) = base

\* the comparison that takes the configured extension as written
ExtensionListed_CaseSensitive(input, ext) ==
    \E i \in 1..Len(input.extensions) : input.extensions[i] = ext

\* lines 337-340: input.extensions.iter().any(|ext| ext.to_lowercase() == extension)
ExtensionListed(input, ext) ==
    \E i \in 1..Len(input.extensions) : to_lowercase(input.extensions[i]) = ext

\* the loop of find_matching_input from InputSpec i on: the index returned
RECURSIVE MatchFrom(_, _, _, _)
MatchFrom(inputs, i, canonical_file_path, ext) ==
    IF i > Len(inputs) THEN {}
    ELSE LET canonical_input_path == canonicalize(inputs[i].path) IN
         IF canonical_input_path = {} THEN MatchFrom(inputs, i + 1, canonical_file_path, ext)
         ELSE IF ~starts_with(canonical_file_path, CHOOSE r \in canonical_input_path : TRUE)
         THEN MatchFrom(inputs, i + 1, canonical_file_path, ext)
         ELSE IF ExtensionListed(inputs[i], ext) THEN {i}
         ELSE MatchFrom(inputs, i + 1, canonical_file_path, ext)

\* find_matching_input on a spelled path: no InputSpec, or the index of one
FindMatchingInput(inputs, file_path) ==
    LET ext == extension(file_path)
        canonical_file_path == canonicalize(file_path)
    IN
    IF ext = {} THEN {}
    ELSE IF canonical_file_path = {} THEN {}
    ELSE MatchFrom(inputs, 1, CHOOSE c \in canonical_file_path : TRUE,
                   to_lowercase(CHOOSE e \in ext : TRUE))

\* the early return of process_file that is never taken
NoMatch_Never(m) == FALSE

\* lines 211-217: `let Some(_) = ... else { return Ok(()) }`
NoMatch(m) == m = {}

InitFiles ==
    /\ MainIdle
    /\ \E ins \in InputLists :
         keyed = [inputs |-> ins, queue |-> <<>>, signals |-> 0, sending |-> 0,
                  draining |-> FALSE,
                  active |-> {}, tasks |-> {}, nsub |-> 0, last |-> <<>>,
                  matched |-> {}, ret |-> "none"]
    /\ failure = "unused" /\ parser = "unused" /\ stab = "unused"
    /\ cmd = "unused" /\ naming = "unused" /\ walk = "unused"

KeyedQueued(path) == \E i \in 1..Len(keyed.queue) : keyed.queue[i] = path

\* process_file (210-244) on the path as spelled, up to the release of the
\* queue lock; the handle of the caller never holds an active job.  A call
\* that matches no InputSpec or finds the path queued returns Ok; a call
\* that has pushed has its send still to do.
KeyedSubmit(path) ==
    /\ keyed.nsub < KeyedMaxSubmits
    /\ LET m == FindMatchingInput(keyed.inputs, path)
           called == [keyed EXCEPT !.nsub = @ + 1, !.last = path, !.matched = m, !.ret = "ok"]
       IN
       IF NoMatch(m) THEN keyed' = called
       ELSE IF KeyedQueued(path) THEN keyed' = called
       ELSE keyed' = [called EXCEPT !.queue = Append(@, path), !.sending = @ + 1,
                                    !.ret = "sending"]
    /\ UNCHANGED <<mainvars, failure, parser, stab, cmd, naming, walk>>

\* process_file, lines 228-231: `self.queue_tx.send(()).await` (waits while
\* the channel is full), then the call returns Ok
KeyedSend ==
    /\ keyed.sending > 0
    /\ keyed.signals < ChannelCapacity
    /\ keyed' = [keyed EXCEPT !.signals = @ + 1, !.sending = @ - 1,
                        !.ret = IF keyed.sending = 1 THEN "ok" ELSE @]
    /\ UNCHANGED <<mainvars, failure, parser, stab, cmd, naming, walk>>

\* start_queue_processor: rx.recv()
KeyedRecv ==
    /\ ~keyed.draining
    /\ keyed.signals > 0
    /\ keyed' = [keyed EXCEPT !.signals = @ - 1, !.draining = TRUE]
    /\ UNCHANGED <<mainvars, failure, parser, stab, cmd, naming, walk>>

\* process_queued_files: one turn of the loop
KeyedDrain ==
    /\ keyed.draining
    /\ IF keyed.queue = <<>>
       THEN keyed' = [keyed EXCEPT !.draining = FALSE]
       ELSE LET path == Head(keyed.queue) IN
            IF path \in keyed.active
            THEN keyed' = [keyed EXCEPT !.queue = Tail(@)]
            ELSE keyed' = [keyed EXCEPT !.queue = Tail(@), !.active = @ \cup {path},
                                !.tasks = @ \cup {path}]
    /\ UNCHANGED <<mainvars, failure, parser, stab, cmd, naming, walk>>

\* the worker task of a path ends
KeyedTaskEnd(path) ==
    /\ path \in keyed.tasks
    /\ keyed' = [keyed EXCEPT !.tasks = @ \ {path}]
    /\ UNCHANGED <<mainvars, failure, parser, stab, cmd, naming, walk>>

NextFiles ==
    \/ \E path \in Spellings : KeyedSubmit(path)
    \/ KeyedSend
    \/ KeyedRecv
    \/ KeyedDrain
    \/ \E path \in Spellings : KeyedTaskEnd(path)

SpecFiles == InitFiles /\ [][NextFiles]_vars

\* the spelled paths that are queued or have a worker
KeyedInstances == {path \in Spellings : KeyedQueued(path) \/ path \in keyed.tasks}

\* C18: paths spelled differently that canonicalize to the same file make one
\* queued or active instance.
C18_OneInstancePerCanonicalPath ==
    \A a, b \in KeyedInstances : canonicalize(a) = canonicalize(b) => a = b

\* C19: a Submit of a path that matches no InputSpec returns success and
\* leaves the queue, the active set, the workers and the wake-up channel as
\* they were.
C19_NoMatchNoOp ==
    [][(keyed'.nsub = keyed.nsub + 1 /\ FindMatchingInput(keyed.inputs, keyed'.last) = {})
          => (/\ keyed'.ret = "ok"
              /\ keyed'.queue = keyed.queue
              /\ keyed'.active = keyed.active
              /\ keyed'.tasks = keyed.tasks
              /\ keyed'.signals = keyed.signals
              /\ keyed'.sending = keyed.sending)]_vars

\* C19 witness: with a file queued, a Submit of a path that matches no
\* InputSpec has returned.
C19_Witness ==
    /\ keyed.nsub > 0
    /\ keyed.queue # <<>>
    /\ FindMatchingInput(keyed.inputs, keyed.last) = {}

\* two texts are equal up to the case of their letters
SameLetter(x, y) ==
    \/ x = y
    \/ x \in DOMAIN LowerChar /\ LowerChar[x] = y
    \/ y \in DOMAIN LowerChar /\ LowerChar[y] = x
EqualIgnoringCase(a, b) ==
    Len(a) = Len(b) /\ \A i \in 1..Len(a) : SameLetter(a[i], b[i])

\* InputSpec i of the configuration takes the file: its canonical root is a
\* prefix of the file's canonical path and its list holds the file's extension
Satisfies(inputs, i, path) ==
    /\ canonicalize(path) # {}
    /\ canonicalize(inputs[i].path) # {}
    /\ \E f \in canonicalize(path), r \in canonicalize(inputs[i].path) : starts_with(f, r)
    /\ \E e \in extension(path), k \in 1..Len(inputs[i].extensions) :
          EqualIgnoringCase(inputs[i].extensions[k], e)

\* C20: find_matching_input returns the first InputSpec in configuration
\* order that takes the file, and none exactly when no InputSpec does.
C20_FirstMatchingInput ==
    keyed.nsub > 0 =>
        LET sat == {i \in 1..Len(keyed.inputs) : Satisfies(keyed.inputs, i, keyed.last)} IN
        /\ keyed.matched = {} <=> sat = {}
        /\ \A m \in keyed.matched : m \in sat /\ \A i \in sat : m <= i

\* C20 witness: the file is under the second InputSpec's root and its
\* extension is listed there in another case; the first InputSpec does not
\* take it and the second is returned.
C20_Witness ==
    /\ keyed.nsub > 0
    /\ keyed.matched = {2}
    /\ ~ExtensionListed_CaseSensitive(keyed.inputs[2],
                                      CHOOSE e \in extension(keyed.last) : TRUE)

\* --------------------- the command line built by transcode_file (396-429)
\* the most extra options a preset defines
MaxExtra == 2

\* An argument is a text, a text a sequence of tokens.
Arg(t) == <<t>>

\* the key/value pairs of extra_options of the preset medium_h264, in the
\* order they are defined (inserted)
DefinedExtras ==
    << <<"-preset", "medium">>, <<"-crf", "23">>, <<"-tune", "film">> >>

\* an Option<String> field: unset, or set to a value
Opt(v) == {{}, {v}}

\* PresetConfig (config.rs:31-41)
PresetConfigs ==
    [video_codec : Opt("libx264"), audio_codec : Opt("aac"),
     video_bitrate : Opt("4M"), audio_bitrate : Opt("192k"),
     pixel_format : Opt("yuv420p"), scale : Opt("1280:720"),
     extra_options : {SubSeq(DefinedExtras, 1, n) : n \in 0..MaxExtra}]

\* the orders in which a HashMap of n entries can be iterated
IterationOrders(n) ==
    {f \in [1..n -> 1..n] : \A i, j \in 1..n : f[i] = f[j] => i = j}

\* `if let Some(x) = &preset.field { cmd.arg(flag).arg(x) }`
FlagArgs(flag, field) ==
    IF field = {} THEN <<>> ELSE <<Arg(flag), Arg(CHOOSE v \in field : TRUE)>>

\* `cmd.arg("-vf").arg(format!("scale={}", scale))`
ScaleArgs(field) ==
    IF field = {} THEN <<>> ELSE <<Arg("-vf"), <<"scale=", CHOOSE v \in field : TRUE>>>>

\* `for (key, value) in &preset.extra_options`, visiting the entries in `order`
RECURSIVE ExtraArgs(_, _, _)
ExtraArgs(extras, order, i) ==
    IF i > Len(extras) THEN <<>>
    ELSE <<Arg(extras[order[i]][1]), Arg(extras[order[i]][2])>>
             \o ExtraArgs(extras, order, i + 1)

\* lines 396-429: the arguments in the order of the cmd.arg calls
BuildArgs(input_path, output_path, preset, order) ==
    <<Arg("-v"), Arg("quiet"), Arg("-progress"), Arg("pipe:1"),
      Arg("-stats_period"), Arg("1.0"),
      Arg("-i"), Arg(input_path), Arg("-y"), Arg(output_path)>>
    \o FlagArgs("-c:v", preset.video_codec)
    \o FlagArgs("-c:a", preset.audio_codec)
    \o FlagArgs("-b:v", preset.video_bitrate)
    \o FlagArgs("-b:a", preset.audio_bitrate)
    \o FlagArgs("-pix_fmt", preset.pixel_format)
    \o ScaleArgs(preset.scale)
    \o ExtraArgs(preset.extra_options, order, 1)

\* The preset is loaded into a HashMap whose iteration order is fixed when the
\* map is built (its hasher is seeded at random) and kept by its clones.
InitArgs ==
    /\ MainIdle
    /\ \E pr \in PresetConfigs :
         \E ord \in IterationOrders(Len(pr.extra_options)) :
            cmd = [preset |-> pr, order |-> ord, pc |-> "start", args |-> <<>>, runs |-> 0]
    /\ failure = "unused" /\ parser = "unused" /\ stab = "unused" /\ keyed = "unused"
    /\ naming = "unused" /\ walk = "unused"

\* the largest number of jobs that build a command line from the preset
MaxBuilds == 2

\* transcode_file builds the command line of a job
CmdBuild ==
    /\ cmd.runs < MaxBuilds
    /\ cmd' = [cmd EXCEPT !.pc = "built", !.runs = @ + 1,
                   !.args = BuildArgs("in/clip.mov", "out/clip.mp4", cmd.preset, cmd.order)]
    /\ UNCHANGED <<mainvars, failure, parser, stab, keyed, naming, walk>>

NextArgs == CmdBuild

SpecArgs == InitArgs /\ [][NextArgs]_vars

\* the order of the preset file
DefinedOrder(n) == [i \in 1..n |-> i]

\* C21: the argument list is the fixed prefix, then the flags of the set
\* preset fields in the fixed order, then the extra options in the order the
\* preset defines them.
C21_ArgsInDefinedOrder ==
    cmd.pc = "built" =>
        cmd.args = BuildArgs("in/clip.mov", "out/clip.mp4", cmd.preset,
                             DefinedOrder(Len(cmd.preset.extra_options)))

\* ------------------------------------------- create_output_path (367-386)
\* A text is a sequence of tokens; "/" separates the components of a path,
\* "." is the dot of a file name and "{filename}" the placeholder.
InputNames ==
    { <<"in", "/", "clip", ".", "mov">>,
      <<"in", "/", "sub", "/", "clip", ".", "final", ".", "mov">>,
      <<"in", "/", "{filename}", ".", "mov">>,
      <<"in", "/", "take", "_", "2", ".", "MKV">> }

Templates ==
    { <<"{filename}">>,
      <<"{filename}", "_encoded">>,
      <<"{filename}", "-", "{filename}">>,
      <<"sub", "/", "{filename}">>,
      <<"/", "abs", "/", "{filename}">>,
      <<"fixed">> }

Containers == {"mp4", "mkv"}

OutputDirs == { <<"out">>, <<"/", "srv", "/", "media">> }

\* Path::file_name: what follows the last "/"
FileName(path) ==
    LET seps == {i \in 1..Len(path) : path[i] = "/"} IN
    IF seps = {} THEN path
    ELSE SubSeq(path, (CHOOSE k \in seps : \A j \in seps : j <= k) + 1, Len(path))

\* Path::file_stem: the file name up to its last ".", the whole name when it
\* has none or only a leading one
file_stem(path) ==
    LET name == FileName(path)
        dots == {i \in 1..Len(name) : name[i] = "."}
    IN
    IF dots = {} THEN name
    ELSE LET i == CHOOSE k \in dots : \A j \in dots : j <= k IN
         IF i = 1 THEN name ELSE SubSeq(name, 1, i - 1)

\* the replacement that stops after the first occurrence
RECURSIVE replace_FirstOnly(_, _, _)
replace_FirstOnly(text, from, to) ==
    IF text = <<>> THEN <<>>
    ELSE IF Head(text) = from THEN to \o Tail(text)
    ELSE <<Head(text)>> \o replace_FirstOnly(Tail(text), from, to)

\* str::replace: every occurrence, left to right, the result not rescanned
RECURSIVE replace(_, _, _)
replace(text, from, to) ==
    IF text = <<>> THEN <<>>
    ELSE IF Head(text) = from THEN to \o replace(Tail(text), from, to)
    ELSE <<Head(text)>> \o replace(Tail(text), from, to)

\* PathBuf::join: an absolute right side replaces the left side
PathJoin(base, rel) ==
    IF rel # <<>> /\ Head(rel) = "/" THEN rel
    ELSE IF base # <<>> /\ base[Len(base)] = "/" THEN base \o rel
    ELSE base \o <<"/">> \o rel

\* create_output_path on texts
CreateOutputPath(input_path, output_config) ==
    LET filename == file_stem(input_path)
        output_filename == replace(output_config.filename_template, "{filename}", filename)
    IN PathJoin(output_config.path, output_filename \o <<".", output_config.container>>)

InitNaming ==
    /\ MainIdle
    /\ \E i \in InputNames, t \in Templates, c \in Containers, d \in OutputDirs :
         naming = [input |-> i,
                   output |-> [path |-> d, filename_template |-> t, container |-> c],
                   pc |-> "start", result |-> <<>>]
    /\ failure = "unused" /\ parser = "unused" /\ stab = "unused" /\ keyed = "unused"
    /\ cmd = "unused" /\ walk = "unused"

\* process_file_internal calls create_output_path
NamingApply ==
    /\ naming.pc = "start"
    /\ naming' = [naming EXCEPT !.pc = "done",
                      !.result = CreateOutputPath(naming.input, naming.output)]
    /\ UNCHANGED <<mainvars, failure, parser, stab, keyed, cmd, walk>>

NextNaming == NamingApply

SpecNaming == InitNaming /\ [][NextNaming]_vars

\* the texts of a sequence of texts, one after the other
RECURSIVE Flatten(_)
Flatten(ts) == IF ts = <<>> THEN <<>> ELSE Head(ts) \o Flatten(Tail(ts))

\* the input's base name without its extension: the name is base, ".", and
\* an extension without "."
IsBaseOf(base, name) ==
    \/ /\ Len(base) + 2 <= Len(name)
       /\ SubSeq(name, 1, Len(base)) = base
       /\ name[Len(base) + 1] = "."
       /\ \A i \in (Len(base) + 2)..Len(name) : name[i] # "."
    \/ /\ base = name
       /\ \A i \in 2..Len(name) : name[i] # "."

\* C23: the output path is the output directory joined with the template,
\* every '{filename}' in it replaced by the input's base name without its
\* extension, followed by '.' and the container; '{filename}_encoded',
\* 'clip.mov' and 'mp4' give 'clip_encoded.mp4'.
C23_OutputPathTemplating ==
    /\ naming.pc = "done" =>
         \E base \in {SubSeq(FileName(naming.input), 1, n) : n \in 1..Len(FileName(naming.input))} :
            /\ IsBaseOf(base, FileName(naming.input))
            /\ LET t == naming.output.filename_template
                   filled == Flatten([i \in 1..Len(t) |->
                                        IF t[i] = "{filename}" THEN base ELSE <<t[i]>>])
               IN naming.result =
                    PathJoin(naming.output.path, filled \o <<".", naming.output.container>>)
    /\ (/\ naming.pc = "done"
        /\ naming.input = <<"in", "/", "clip", ".", "mov">>
        /\ naming.output.filename_template = <<"{filename}", "_encoded">>
        /\ naming.output.container = "mp4")
       => FileName(naming.result) = <<"clip", "_encoded", ".", "mp4">>

\* C23 witness: the template names the placeholder twice and the input has
\* two dots in its name; the path has been made.
C23_Witness ==
    /\ naming.pc = "done"
    /\ naming.output.filename_template = <<"{filename}", "-", "{filename}">>
    /\ FileName(naming.input) = <<"clip", ".", "final", ".", "mov">>

\* the three conditions of the completion check
ExitedWithOutput ==
    parser.status = "exited_ok" /\ parser.out # "none" /\ parser.out # "empty"

\* C28 as stated: the executor reports success exactly when the exit status
\* is success, the output exists and its size is greater than zero.
C28_SuccessIffThreeChecks ==
    parser.pc = "done" => (parser.result = "ok" <=> ExitedWithOutput)

\* C28 amended: when the progress stream was read without a read error, the
\* executor reports success exactly when the three conditions hold, and each
\* failing check gives its own reason; a read error makes it fail before the
\* exit status is looked at.
C28_SuccessIffThreeChecksAfterRead ==
    parser.pc = "done" =>
        /\ parser.why = "read" => parser.result = "err"
        /\ parser.why # "read" =>
              /\ parser.result = "ok" <=> ExitedWithOutput
              /\ parser.why = "status" <=> parser.status # "exited_ok"
              /\ parser.why = "notcreated"
                    <=> (parser.status = "exited_ok" /\ parser.out = "none")
              /\ parser.why = "empty"
                    <=> (parser.status = "exited_ok" /\ parser.out = "empty")

\* C28 witness: ffmpeg exited with success and left an empty output file; the
\* executor has reported the failure.
C28_Witness ==
    /\ parser.pc = "done"
    /\ parser.status = "exited_ok"
    /\ parser.out = "empty"
    /\ parser.why = "empty"

\* a text is a decimal number: an optional sign, digits, at most one point
IsDecimal(t) ==
    LET u == IF t # <<>> /\ t[1] \in {"-", "+"} THEN SubSeq(t, 2, Len(t)) ELSE t IN
    /\ \A i \in 1..Len(u) : u[i] \in DOMAIN DigitValue \cup {"."}
    /\ Cardinality({i \in 1..Len(u) : u[i] = "."}) <= 1
    /\ \E i \in 1..Len(u) : u[i] # "."

\* a decimal number greater than 0: no minus sign and a digit that is not 0
IsPositiveDecimal(t) ==
    /\ IsDecimal(t)
    /\ t[1] # "-"
    /\ \E i \in 1..Len(t) : t[i] \in DOMAIN DigitValue /\ t[i] # "0"

\* ffprobe's stdout without the white space around it
ProbeText == SelectSeq(stab.probe.stdout, LAMBDA t : t \notin Whitespace)

\* the gate has answered
GateAnswered == stab.pc = "done" \/ stab.pc = "returned"

\* C29: the gate answers 'valid' exactly when the file settled and the probe
\* exited with success and printed a duration greater than 0; a probe that
\* fails, or a duration that cannot be parsed or is not greater than 0, gives
\* 'not valid'; the probe runs only after the file settled.
C29_ValidIffSettledAndProbed ==
    /\ GateAnswered =>
         (stab.result = "valid"
            <=> (/\ stab.obsStable
                 /\ stab.probed /\ stab.probe.spawned /\ stab.probe.success
                 /\ IsPositiveDecimal(ProbeText)))
    /\ (GateAnswered /\ stab.probed
          /\ ~(stab.probe.spawned /\ stab.probe.success /\ IsPositiveDecimal(ProbeText)))
       => stab.result = "notvalid"
    /\ (stab.pc = "probe" \/ stab.probed) => stab.obsStable

\* C29, amended: the same, with 'a probe that fails' read as a probe that
\* ran and exited with a failure status; a probe that could not be executed
\* at all makes the gate answer with an error.
C29_ValidIffSettledAndProbeRan ==
    /\ GateAnswered =>
         (stab.result = "valid"
            <=> (/\ stab.obsStable
                 /\ stab.probed /\ stab.probe.spawned /\ stab.probe.success
                 /\ IsPositiveDecimal(ProbeText)))
    /\ (GateAnswered /\ stab.probed /\ stab.probe.spawned
          /\ ~(stab.probe.success /\ IsPositiveDecimal(ProbeText)))
       => stab.result = "notvalid"
    /\ (GateAnswered /\ stab.probed /\ ~stab.probe.spawned) => stab.result = "error"
    /\ (stab.pc = "probe" \/ stab.probed) => stab.obsStable

\* C29 witness: the file settled and the probe exited with success and
\* printed a duration of zero; the gate has answered.
C29_Witness ==
    /\ GateAnswered
    /\ stab.probed /\ stab.probe.spawned /\ stab.probe.success
    /\ IsDecimal(ProbeText)
    /\ ~IsPositiveDecimal(ProbeText)

\* C30: a failed read of the metadata at a poll makes the gate answer with an
\* error at that poll, without another poll and without a probe, and the
\* worker does not re-submit the path.
C30_MetadataFailureIsHardError ==
    stab.metaFailed =>
        /\ GateAnswered
        /\ stab.result = "error"
        /\ ~stab.probed
        /\ stab.now = stab.failedAt
        /\ ~stab.requeued

\* C30 witness: the file vanished after the polls had seen it, the read of
\* the metadata failed and the worker has handled the error.
C30_Witness ==
    /\ stab.pc = "returned"
    /\ stab.metaFailed
    /\ stab.last_size # {}
    /\ stab.failedAt > 0

\* C22: a job for P that fails at the gate (it never started ffmpeg) leaves
\* the output file that the job of another path Q produced where it is.
C22_FailureLeavesOtherOutput ==
    [][\A w \in Workers :
          (workers[w].pc = "gate" /\ workers'[w].pc \notin {"gate", "pipeline"})
          => \A q \in Paths \ {workers[w].path} :
                outFile[create_output_path(q)] = "new"
                => outFile'[create_output_path(q)] = "new"]_vars

\* C24: a path whose job reached a terminal outcome (no transient failure,
\* so no re-queue) and that was submitted again afterwards has had a worker
\* run its pipeline for the new submission once the system is at rest.
C24_ResubmitAfterTerminalRuns ==
    \A p \in Paths :
        (Quiescent /\ retries[p] = 0 /\ started[p] >= 1 /\ epoch[p].subs >= 1)
        => epoch[p].runs >= 1

\* C25: whenever the dispatcher removes the head of the queue, either a
\* worker is spawned for that path in the same step, or a worker for that
\* path is still live (the entry joins the job in progress); no entry is
\* dropped while nothing is running for its path.
C25_PoppedEntryGetsWorker ==
    [][(dispatcher = "drain" /\ file_queue # <<>> /\ file_queue' = Tail(file_queue))
       => \/ \E w \in Workers :
                /\ workers[w].pc = "free"
                /\ workers'[w].pc = "acquire"
                /\ workers'[w].path = Head(file_queue)
          \/ LiveWorkers(Head(file_queue)) # {}]_vars

\* ------------------------------------------------------------------------
\* Fair scheduling.  The same program with fewer Submit calls, under the
\* scheduling the tokio runtime gives: every task that is ready to take a
\* step takes it (the sender in process_file, the dispatcher loop, each
\* worker task), a gate call returns (it has a timeout), the 5 s sleep ends,
\* and a started ffmpeg ends.  Nothing is assumed about Submit calls or
\* about the input files: a copy need never finish.  The output directory
\* starts empty.
MaxFairSubmits == 2

NextFair ==
    \/ \E p \in Paths : SubmitPushUpTo(p, MaxFairSubmits)
    \/ SubmitSend
    \/ DispatcherRecv
    \/ DrainEmpty
    \/ DrainSkip
    \/ DrainSpawn
    \/ \E w \in Workers : WorkerAcquire(w)
    \/ \E w \in Workers : WorkerGate(w)
    \/ \E w \in Workers : WorkerPipeline(w)
    \/ \E w \in Workers : WorkerReadError(w)
    \/ \E w \in Workers : WorkerWait(w)
    \/ \E w \in Workers : WorkerRequeue(w)
    \/ \E w \in Workers : WorkerSignal(w)
    \/ \E w \in Workers : ChildExit(w)
    \/ \E p \in Paths : FinishCopy(p)
    \/ \E p \in Paths : DeleteInput(p)

\* one step of the worker task w, whatever its position
WorkerStep(w) ==
    \/ WorkerAcquire(w)
    \/ WorkerGate(w)
    \/ WorkerPipeline(w)
    \/ WorkerReadError(w) \/ WorkerWait(w)
    \/ WorkerRequeue(w)
    \/ WorkerSignal(w)

\* one step of the dispatcher task
DispatcherStep == DispatcherRecv \/ DrainEmpty \/ DrainSkip \/ DrainSpawn

Fairness ==
    /\ WF_vars(SubmitSend)
    /\ WF_vars(DispatcherStep)
    /\ \A w \in Workers : WF_vars(WorkerStep(w))
    /\ \A w \in Workers : WF_vars(ChildExit(w))

\* the program started on an empty output directory
InitFair == Init /\ \A o \in Outputs : outFile[o] = "none"

SpecFair == InitFair /\ [][NextFair]_vars /\ Fairness

\* C26: a worker that leaves its backoff puts its path at the tail of the
\* queue, and whatever another path does (its gate may answer 'not valid'
\* for ever), a queued path that has not run yet eventually has its job run.
C26_FlappingCannotStarve ==
    /\ [][\A w \in Workers :
            (workers[w].pc = "backoff" /\ workers'[w].pc # "backoff")
            => file_queue' = Append(file_queue, workers[w].path)]_vars
    /\ \A q \in Paths : (InQueue(q) /\ started[q] = 0) ~> (started[q] >= 1)

\* a path was put back after a 'not valid' gate and is still being copied,
\* and another path, submitted as well, has had its job run
C26_Witness ==
    \E p \in Paths : \E q \in Paths \ {p} :
        /\ retries[p] >= 1 /\ inputState[p] = "copying"
        /\ started[q] >= 1

\* ------------------------------------------------------------------------
\* DirectoryWatcher::start_watching: the startup walk and the live events.
MaxEvents == 1

\* the watched roots of a configuration: a directory, a directory inside
\* it, the same directory reached through the symbolic link, another one
WalkInputSpecs ==
    { [path |-> <<DirIn, DirSub>>,   extensions |-> << <<"m", "o", "v">> >>],
      [path |-> <<DirLink, DirSub>>, extensions |-> << <<"m", "o", "v">> >>],
      [path |-> <<DirIn>>,           extensions |-> << <<"m", "o", "v">> >>],
      [path |-> <<DirOther>>,        extensions |-> << <<"m", "o", "v">> >>] }

\* config.inputs: two InputSpecs with different roots, in some order
WalkInputLists == {ins \in [1..2 -> WalkInputSpecs] : ins[1].path # ins[2].path}

\* process_existing_files(dir), all levels of the recursion: the regular
\* files below dir, each spelled as dir joined with the entry names
ExistingFiles(dir) ==
    LET c == canonicalize(dir) IN
    IF c = {} THEN {}
    ELSE LET base == CHOOSE b \in c : TRUE IN
         { dir \o SubSeq(f, Len(base) + 1, Len(f)) :
              f \in {g \in RealFiles : starts_with(g, base)} }

\* start_watching has spawned the listener task (line 53); walk.early
\* records that the listener took an event while a task spawned by a walk
\* had not called process_file yet
Listening == walk.at > Len(walk.inputs)

InitWalk ==
    /\ MainIdle
    /\ \E ins \in WalkInputLists :
         walk = [inputs |-> ins, at |-> 1, todo |-> ExistingFiles(ins[1].path),
                 pending |-> {}, events |-> <<>>, nevents |-> 0, consumed |-> 0,
                 early |-> FALSE, sleepers |-> {}, queue |-> <<>>, signals |-> 0,
                 sending |-> 0,
                 draining |-> FALSE, active |-> {}]
    /\ failure = "unused" /\ parser = "unused" /\ stab = "unused" /\ keyed = "unused"
    /\ cmd = "unused" /\ naming = "unused"

\* process_file (210-244) on the path as spelled, by a task of the watcher,
\* up to the release of the queue lock: a call that has pushed has its send
\* still to do
WalkProcessFile(w, path) ==
    IF NoMatch(FindMatchingInput(w.inputs, path)) THEN w
    ELSE IF \E i \in 1..Len(w.queue) : w.queue[i] = path THEN w
    ELSE [w EXCEPT !.queue = Append(@, path), !.sending = @ + 1]

\* process_existing_files, lines 88-101: one regular file found, its submit
\* task spawned (and not awaited)
WalkSpawn(path) ==
    /\ ~Listening
    /\ path \in walk.todo
    /\ walk' = [walk EXCEPT !.todo = @ \ {path}, !.pending = @ \cup {<<walk.at, path>>}]
    /\ UNCHANGED <<mainvars, failure, parser, stab, keyed, cmd, naming>>

\* start_watching, lines 39-53: the walk of one root returns; the next root
\* is watched and walked, or the listener task is spawned
WalkReturn ==
    /\ ~Listening
    /\ walk.todo = {}
    /\ walk' = [walk EXCEPT !.at = @ + 1,
                   !.todo = IF walk.at + 1 > Len(walk.inputs) THEN {}
                            ELSE ExistingFiles(walk.inputs[walk.at + 1].path)]
    /\ UNCHANGED <<mainvars, failure, parser, stab, keyed, cmd, naming>>

\* the task spawned at line 93 runs: process_file on the file found, up to
\* its send
WalkSubmit(t) ==
    /\ t \in walk.pending
    /\ walk' = [WalkProcessFile(walk, t[2]) EXCEPT !.pending = @ \ {t}]
    /\ UNCHANGED <<mainvars, failure, parser, stab, keyed, cmd, naming>>

\* the notify callback (lines 30-37): a create or modify event for a file
\* below a root that is already watched, spelled from that root, is sent
\* into the event channel
FsEvent(i, path) ==
    /\ i \in 1..Len(walk.inputs) /\ i <= walk.at
    /\ path \in ExistingFiles(walk.inputs[i].path)
    /\ walk.nevents < MaxEvents
    /\ Len(walk.events) < ChannelCapacity
    /\ walk' = [walk EXCEPT !.events = Append(@, path), !.nevents = @ + 1]
    /\ UNCHANGED <<mainvars, failure, parser, stab, keyed, cmd, naming>>

\* the listener task, lines 54-67: rx.recv() takes an event and spawns the
\* task that sleeps 1 s before its process_file
ListenerRecv ==
    /\ Listening
    /\ walk.events # <<>>
    /\ walk' = [walk EXCEPT !.events = Tail(@), !.consumed = @ + 1,
                   !.early = @ \/ walk.pending # {},
                   !.sleepers = @ \cup {<<walk.consumed + 1, Head(walk.events)>>}]
    /\ UNCHANGED <<mainvars, failure, parser, stab, keyed, cmd, naming>>

\* the task spawned at line 61, after its sleep: process_file, up to its send
EventSubmit(t) ==
    /\ t \in walk.sleepers
    /\ walk' = [WalkProcessFile(walk, t[2]) EXCEPT !.sleepers = @ \ {t}]
    /\ UNCHANGED <<mainvars, failure, parser, stab, keyed, cmd, naming>>

\* process_file, lines 228-231: `self.queue_tx.send(()).await` (waits while
\* the channel is full), then the task ends
WalkSend ==
    /\ walk.sending > 0
    /\ walk.signals < ChannelCapacity
    /\ walk' = [walk EXCEPT !.signals = @ + 1, !.sending = @ - 1]
    /\ UNCHANGED <<mainvars, failure, parser, stab, keyed, cmd, naming>>

\* start_queue_processor: rx.recv()
WalkDispatcherRecv ==
    /\ ~walk.draining
    /\ walk.signals > 0
    /\ walk' = [walk EXCEPT !.signals = @ - 1, !.draining = TRUE]
    /\ UNCHANGED <<mainvars, failure, parser, stab, keyed, cmd, naming>>

\* process_queued_files: one turn of the loop; a path the dispatcher's set
\* does not hold gets a worker, and the set keeps it
WalkDrain ==
    /\ walk.draining
    /\ IF walk.queue = <<>>
       THEN walk' = [walk EXCEPT !.draining = FALSE]
       ELSE LET path == Head(walk.queue) IN
            IF path \in walk.active
            THEN walk' = [walk EXCEPT !.queue = Tail(@)]
            ELSE walk' = [walk EXCEPT !.queue = Tail(@), !.active = @ \cup {path}]
    /\ UNCHANGED <<mainvars, failure, parser, stab, keyed, cmd, naming>>

\* every spelled path a walk or an event can name
WalkPaths == UNION {ExistingFiles(input.path) : input \in WalkInputSpecs}

NextWalk ==
    \/ \E path \in WalkPaths : WalkSpawn(path)
    \/ WalkReturn
    \/ \E t \in (1..2) \X WalkPaths : WalkSubmit(t)
    \/ \E i \in 1..2 : \E path \in WalkPaths : FsEvent(i, path)
    \/ ListenerRecv
    \/ \E t \in (1..MaxEvents) \X WalkPaths : EventSubmit(t)
    \/ WalkSend
    \/ WalkDispatcherRecv
    \/ WalkDrain

SpecWalk == InitWalk /\ [][NextWalk]_vars

\* the walks are over and every task and the dispatcher have nothing to do
WalkAtRest ==
    /\ Listening /\ walk.pending = {} /\ walk.events = <<>> /\ walk.sleepers = {}
    /\ walk.queue = <<>> /\ walk.signals = 0 /\ walk.sending = 0 /\ ~walk.draining

\* the files on disk below a watched root that match an InputSpec
PreExistingMatching ==
    { f \in RealFiles :
         /\ \E i \in 1..Len(walk.inputs) :
               \E path \in ExistingFiles(walk.inputs[i].path) : canonicalize(path) = {f}
         /\ ~NoMatch(FindMatchingInput(walk.inputs, f)) }

\* the workers spawned for the file f, under whatever spelling
WalkRuns(f) == Cardinality({path \in walk.active : canonicalize(path) = {f}})

\* C27: no live event is taken from the event channel while a submit task
\* of the startup walk has still to call Submit, and once everything is at
\* rest each pre-existing matching file has had exactly one worker.
C27_WalkFirstAndOnce ==
    /\ ~walk.early
    /\ WalkAtRest => \A f \in PreExistingMatching : WalkRuns(f) = 1

\* ------------------------------------------------------------------------
\* The progress indicator, read off the lines of the stream.
\* the lines whose key is 'out_time_ms', and the text after the '='
IsElapsedLine(l) ==
    \E e \in SplitOnce(Trim(l)) : e[1] = <<"out_time_ms">>
ElapsedText(l) ==
    (CHOOSE e \in SplitOnce(Trim(l)) : TRUE)[2]

\* a text of digits only, and the number it writes
IsNatural(t) == t # <<>> /\ \A i \in 1..Len(t) : t[i] \in DOMAIN DigitValue
RECURSIVE NaturalOf(_)
NaturalOf(t) ==
    IF t = <<>> THEN 0
    ELSE 10 * NaturalOf(SubSeq(t, 1, Len(t) - 1)) + DigitValue[t[Len(t)]]

\* the lines consumed since the previous 'progress' line that carry
\* out_time_ms, by index
CycleElapsed ==
    LET progs == {i \in 1..parser.pos : IsProgressLine(parser.lines[i])}
        from == IF progs = {} THEN 0 ELSE CHOOSE i \in progs : \A j \in progs : j <= i
    IN {i \in (from + 1)..parser.pos : IsElapsedLine(parser.lines[i])}

\* the text of the last of them
CycleText ==
    ElapsedText(parser.lines[CHOOSE i \in CycleElapsed : \A j \in CycleElapsed : j <= i])

\* C31: at the step that finalizes a snapshot, a non-negative elapsed-time
\* value v received since the previous 'progress' line sets the indicator to
\* floor(v / 1,000,000) and is the value of the snapshot; with no value
\* received in the cycle the indicator stays where it was and the snapshot
\* carries no value, whatever an earlier cycle held.
C31_PositionIsWholeSeconds ==
    [][Len(parser'.snapshots) = Len(parser.snapshots) + 1
       => LET snap == parser'.snapshots[Len(parser'.snapshots)] IN
          IF CycleElapsed = {} \/ ~IsDecimal(CycleText)
          THEN parser'.bar = parser.bar /\ snap.out_time_ms = {}
          ELSE IsNatural(CycleText)
               => /\ parser'.bar = [wraps |-> 0,
                                    value |-> NaturalOf(CycleText) \div MicrosPerSecond]
                  /\ snap.out_time_ms = {NaturalOf(CycleText)}]_vars

\* C31, amended: the same for every snapshot that is not terminal and for
\* the terminal one of an indicator without a length; the terminal snapshot
\* of an indicator with a length carries the value as well, and leaves the
\* indicator finished, at its length.
C31_PositionIsWholeSecondsUntilFinish ==
    [][Len(parser'.snapshots) = Len(parser.snapshots) + 1
       => LET snap == parser'.snapshots[Len(parser'.snapshots)]
              none == CycleElapsed = {} \/ ~IsDecimal(CycleText)
          IN
          /\ none => snap.out_time_ms = {}
          /\ (~none /\ IsNatural(CycleText)) => snap.out_time_ms = {NaturalOf(CycleText)}
          /\ IF snap.progress = {<<"end">>} /\ parser.length # {}
             THEN parser'.bar = [wraps |-> 0, value |-> CHOOSE n \in parser.length : TRUE]
             ELSE /\ none => parser'.bar = parser.bar
                  /\ (~none /\ IsNatural(CycleText))
                     => parser'.bar = [wraps |-> 0,
                                       value |-> NaturalOf(CycleText) \div MicrosPerSecond]]_vars

\* C31 witness: on a bar of length 12, 2,999,999 was received in the first
\* cycle and nothing in the second; both snapshots are finalized and the
\* indicator stands at 2.
C31_Witness ==
    /\ parser.length = {12}
    /\ Len(parser.snapshots) = 2
    /\ parser.snapshots[1].out_time_ms = {2999999}
    /\ parser.snapshots[2].out_time_ms = {}
    /\ parser.bar = [wraps |-> 0, value |-> 2]

\* a wake-up is in the channel, or a task that has pushed a path is about
\* to post one (process_file and requeue_file push first and send next)
WakeUpPending ==
    queue_tx > 0 \/ sending > 0 \/ \E w \in Workers : workers[w].pc = "signal"

\* C32: whenever the queue is non-empty and the dispatcher waits in recv, a
\* wake-up is pending or about to be posted; and under fair scheduling a
\* path that is in the queue, put there by Submit or by a retry, is
\* eventually popped.
C32_NoLostWakeUp ==
    /\ []((file_queue # <<>> /\ dispatcher = "recv") => WakeUpPending)
    /\ \A p \in Paths : InQueue(p) ~> ~InQueue(p)

\* C32 witness: the queue holds a path a retrying worker has put back, the
\* dispatcher waits, the channel is empty and the only wake-up to come is
\* the one that worker is about to post.
C32_Witness ==
    /\ file_queue # <<>> /\ dispatcher = "recv"
    /\ queue_tx = 0 /\ sending = 0
    /\ \E w \in Workers : workers[w].pc = "signal" /\ InQueue(workers[w].path)

\* ------------------------------------------------------------------------
\* The scheduler configured with max_parallel_jobs = 2.
ParallelJobs == 2

\* Transcoder::new with that configuration, followed by start_queue_processor
InitParallel ==
    /\ config = "one_output"
    /\ file_queue = <<>>
    /\ queue_tx = 0
    /\ job_semaphore = ParallelJobs
    /\ active_jobs = [orig |-> {}, disp |-> {}, task |-> [w \in Workers |-> {}]]
    /\ dispatcher = "recv"
    /\ workers = [w \in Workers |-> FreeWorker]
    /\ children = [w \in Workers |-> "none"]
    /\ sending = 0
    /\ inputState \in [Paths -> {"copying", "ready"}]
    /\ outFile \in [Outputs -> {"none", "old"}]
    /\ \A o \in Outputs : (\A p \in Paths : create_output_path(p) # o) => outFile[o] = "none"
    /\ nsubmits = 0
    /\ started = [p \in Paths |-> 0]
    /\ outAtSubmit = [p \in Paths |-> FALSE]
    /\ retries = [p \in Paths |-> 0]
    /\ epoch = [p \in Paths |-> [subs |-> 0, runs |-> 0]]
    /\ failure = "unused" /\ parser = "unused" /\ stab = "unused" /\ keyed = "unused"
    /\ cmd = "unused" /\ naming = "unused" /\ walk = "unused"

SpecParallel == InitParallel /\ [][NextFair]_vars

\* C33: two workers that are both reading the progress of their running
\* ffmpeg never have the same output path.
C33_RunningOutputsDistinct ==
    \A w \in Workers : \A v \in Workers \ {w} :
        (/\ workers[w].pc = "running" /\ children[w] = "running"
         /\ workers[v].pc = "running" /\ children[v] = "running")
        => create_output_path(workers[w].path) # create_output_path(workers[v].path)
====
